---- MODULE Spec2Model ----
(***************************************************************************)
(* Model of package revert (src/http.go): the reverse proxy handler        *)
(* ReverseProxy.ServeHTTP, its director, and the maxLatencyWriter with its *)
(* flushLoop goroutine.                                                    *)
(*                                                                         *)
(* A Go string is a sequence of characters; "" is << >>. A string that is  *)
(* only ever compared as a whole is written as one element.                *)
(* An http.Header is a function from header keys to the sequence of the    *)
(* key's values; a key that is not in the map has the empty sequence.      *)
(***************************************************************************)
EXTENDS Integers, Sequences, FiniteSets, TLC

\* ------------------------------------------------------------------ bounds
MaxForbidden == 2   \* calls of Forbidden before the request is served
MaxBody == 3        \* bytes of a backend response body
MaxChunk == 2       \* bytes one Read of the body returns at most

\* ------------------------------------------------------- program constants
StatusInternalServerError == 500
StatusNotFound == 404
StatusOK == 200
StatusMovedPermanently == 301
StatusFound == 302
StatusTemporaryRedirect == 307

TextPlainUtf8 == <<"text/plain; charset=utf-8">>
TextPlainOnly == <<"text/plain">>

\* ------------------------------------------------------------------ strings
HasPrefix(s, p) == Len(p) <= Len(s) /\ SubSeq(s, 1, Len(p)) = p

HasSuffix(s, p) == Len(p) <= Len(s) /\ SubSeq(s, Len(s) - Len(p) + 1, Len(s)) = p

\* strings.Index(s, c) + 1 for a one-character c: 0 when c does not occur
IndexOf(s, c) ==
  IF \E i \in 1..Len(s) : s[i] = c
  THEN CHOOSE i \in 1..Len(s) : s[i] = c /\ \A j \in 1..(i - 1) : s[j] # c
  ELSE 0

\* strings.LastIndex(s, c) + 1
LastIndexOf(s, c) ==
  IF \E i \in 1..Len(s) : s[i] = c
  THEN CHOOSE i \in 1..Len(s) : s[i] = c /\ \A j \in (i + 1)..Len(s) : s[j] # c
  ELSE 0

Min(a, b) == IF a <= b THEN a ELSE b

\* all strings over alphabet A of length at most n
StringsUpTo(A, n) == UNION {[1..k -> A] : k \in 0..n}

\* ------------------------------------------------------------------ headers
ReqKeys == {"Connection", "X-Forwarded-For"}
ResKeys == {"Location", "Content-Type", "Content-Length"}

EmptyHeader(keys) == [k \in keys |-> << >>]

\* http.Header.Get: the first value of the key, "" when there is none
HeaderGet(h, k) == IF Len(h[k]) = 0 THEN << >> ELSE h[k][1]

\* HeaderSet with Add in place of Set: the value is appended
HeaderSetAppend(h, k, v) == [h EXCEPT ![k] = Append(@, v)]

\* http.Header.Set: replace the values by one value
HeaderSet(h, k, v) == [h EXCEPT ![k] = <<v>>]

\* http.Header.Del: remove the key
HeaderDel(h, k) == [h EXCEPT ![k] = << >>]

\* copyHeader with Set in place of Add: the last value of a key replaces the
\* values before it
copyHeaderSet(dst, src) ==
  [k \in DOMAIN dst |->
     IF Len(src[k]) = 0 THEN dst[k] ELSE <<src[k][Len(src[k])]>>]

\* copyHeader(dst, src): every value of every key of src is added to dst.
\* Add appends at the end of the key's values, so the map's iteration order
\* does not change the result.
copyHeader(dst, src) == [k \in DOMAIN dst |-> dst[k] \o src[k]]

\* ------------------------------------------------------------ pure functions
Slash == "/"

\* singleJoiningSlash without the two slash tests: plain concatenation
singleJoiningSlashConcat(a, b) == a \o b

singleJoiningSlash(a, b) ==
  LET aslash == HasSuffix(a, <<Slash>>)
      bslash == HasPrefix(b, <<Slash>>)
  IN  IF aslash /\ bslash THEN a \o Tail(b)
      ELSE IF ~aslash /\ ~bslash THEN a \o <<Slash>> \o b
      ELSE a \o b

\* url.Parse("http://" + domainProxy) for a domainProxy of the shape
\* host[/path][?query]: the target URL the director closes over
ParseTarget(domainProxy) ==
  LET q      == IndexOf(domainProxy, "?")
      before == IF q = 0 THEN domainProxy ELSE SubSeq(domainProxy, 1, q - 1)
      query  == IF q = 0 THEN << >> ELSE SubSeq(domainProxy, q + 1, Len(domainProxy))
      sl     == IndexOf(before, Slash)
  IN  [Scheme   |-> <<"http">>,
       Host     |-> IF sl = 0 THEN before ELSE SubSeq(before, 1, sl - 1),
       Path     |-> IF sl = 0 THEN << >> ELSE SubSeq(before, sl, Len(before)),
       RawQuery |-> query]

\* the director closure of newSingleHostReverseProxy, as the new value of the
\* URL object it is given
director(target, u) ==
  LET path == singleJoiningSlash(target.Path, u.Path)
  IN  [Scheme   |-> target.Scheme,
       Host     |-> target.Host,
       Path     |-> path,
       RawPath  |-> IF u.RawQuery # << >> THEN path \o <<"?">> \o u.RawQuery ELSE path,
       RawQuery |-> target.RawQuery]

\* net.SplitHostPort for addresses without brackets: the host is what
\* precedes the last colon; an address without a colon is an error
SplitHostPort(addr) ==
  LET i == LastIndexOf(addr, ":")
  IN  IF i = 0 THEN [ok |-> FALSE, host |-> << >>]
      ELSE [ok |-> TRUE, host |-> SubSeq(addr, 1, i - 1)]

\* bytes.Replace(s, old, new, -1): scan from the left, replace each match of
\* old and continue after it; an empty old matches before every byte and at
\* the end
RECURSIVE ReplaceAll(_, _, _)
ReplaceAll(s, old, new) ==
  IF Len(old) = 0
  THEN IF Len(s) = 0 THEN new
       ELSE new \o <<Head(s)>> \o
            (IF Len(s) = 1 THEN new ELSE ReplaceAll(Tail(s), old, new))
  ELSE IF Len(s) < Len(old) THEN s
  ELSE IF HasPrefix(s, old)
       THEN new \o ReplaceAll(SubSeq(s, Len(old) + 1, Len(s)), old, new)
       ELSE <<Head(s)>> \o ReplaceAll(Tail(s), old, new)

\* the status codes of the redirect case of the switch
IsRedirect(code) ==
  code \in {StatusMovedPermanently, StatusFound, StatusTemporaryRedirect}

\* ForbiddenMatch that tests the first prefix only
ForbiddenMatchFirstOnly(forbiddens, loc) ==
  forbiddens # << >> /\ HasPrefix(loc, Head(forbiddens))

\* the loop over p.forbiddens: TRUE when some prefix, scanned in order,
\* is a prefix of loc
RECURSIVE ForbiddenMatch(_, _)
ForbiddenMatch(forbiddens, loc) ==
  IF forbiddens = << >> THEN FALSE
  ELSE IF HasPrefix(loc, Head(forbiddens)) THEN TRUE
  ELSE ForbiddenMatch(Tail(forbiddens), loc)

\* ServeHTTP answers 404 instead of relaying the response
FilteredRedirect(forbiddens, r) ==
  /\ IsRedirect(r.StatusCode)
  /\ Len(r.Header["Location"]) > 0
  /\ ForbiddenMatch(forbiddens, r.Header["Location"][1])

\* the body is buffered and rewritten instead of streamed
IsTextResponse(r) ==
  /\ r.StatusCode = StatusOK
  /\ Len(r.Header["Content-Type"]) > 0
  /\ r.Header["Content-Type"][1] = TextPlainUtf8

\* ChooseDst without the test that rw is a writeFlusher
ChooseDstNoFlusherTest(flushInterval, flusher) ==
  IF flushInterval # 0 THEN "mlw" ELSE "rw"

\* the writer the body is copied to
ChooseDst(flushInterval, flusher) ==
  IF flushInterval # 0 /\ flusher THEN "mlw" ELSE "rw"

\* -------------------------------------------------------------------- state
VARIABLES
  p,          \* the ReverseProxy: FlushInterval, DomainProxy, Domain,
              \* forbiddens, and the target URL its Director closes over
  pc,         \* where ServeHTTP (and the Write it is in) stands
  req,        \* the inbound *http.Request; Header is a reference into hdrs
  outreq,     \* the outbound request; Header is a reference into hdrs
  hdrs,       \* the header maps of the two requests, by reference
  url,        \* the one url.URL object req.URL and outreq.URL both point to
  req0,       \* the inbound request as it was when ServeHTTP was called
  rw,         \* the client's http.ResponseWriter
  clientLog,  \* the calls made on rw, in order
  rt,         \* the outcome of transport.RoundTrip: "none", "ok", "err"
  roundTrips, \* the number of RoundTrip calls
  res,        \* the backend's *http.Response
  body,       \* the state of the res.Body stream
  dst,        \* the writer the body is copied to: "none", "rw", "mlw"
  relay,      \* the branch of the body copy: "none", "text", "stream"
  chunk,      \* the bytes the Write in progress was given
  werr,       \* a write to the client has failed
  m,          \* the maxLatencyWriter: lk and done
  flushPc,    \* where the flushLoop goroutine stands
  tick,       \* a tick waits in the ticker's channel t.C
  starts,     \* the number of go m.flushLoop() statements executed
  w2          \* where a second goroutine that calls m.Write stands

vars == <<p, pc, req, outreq, hdrs, url, req0, rw, clientLog, rt, roundTrips,
          res, body, dst, relay, chunk, werr, m, flushPc, tick, starts, w2>>

reqVars == <<req, outreq, hdrs, url, req0>>
resVars == <<rt, roundTrips, res, body>>
copyVars == <<dst, relay, chunk, werr>>
mlwVars == <<m, flushPc, tick, starts, w2>>

NilURL ==
  [Scheme |-> << >>, Host |-> << >>, Path |-> << >>, RawPath |-> << >>,
   RawQuery |-> << >>]

NilRequest ==
  [Header |-> 1, RemoteAddr |-> << >>, Close |-> FALSE, Proto |-> "",
   Host |-> << >>]

NilRequest0 ==
  [Header |-> EmptyHeader(ReqKeys), URL |-> NilURL, RemoteAddr |-> << >>,
   Close |-> FALSE, Proto |-> "", Host |-> << >>]

NilResponse ==
  [StatusCode |-> 0, Header |-> EmptyHeader(ResKeys), Body |-> << >>,
   hasBody |-> FALSE]

\* New(domainProxy, domain), and the FlushInterval the caller sets on the
\* returned proxy (zero when it sets none)
New(domainProxy, domain, flushInterval) ==
  [FlushInterval |-> flushInterval,
   DomainProxy   |-> domainProxy,
   Domain        |-> domain,
   forbiddens    |-> << >>,
   target        |-> ParseTarget(domainProxy)]

InitWith(Configs) ==
  /\ p \in {New(c.DomainProxy, c.Domain, c.FlushInterval) : c \in Configs}
  /\ pc = "idle"
  /\ req = NilRequest
  /\ outreq = NilRequest
  /\ hdrs = [i \in {1, 2} |-> EmptyHeader(ReqKeys)]
  /\ url = NilURL
  /\ req0 = NilRequest0
  /\ rw = [Header |-> EmptyHeader(ResKeys), status |-> 0, body |-> << >>,
           flusher |-> FALSE]
  /\ clientLog = << >>
  /\ rt = "none"
  /\ roundTrips = 0
  /\ res = NilResponse
  /\ body = [off |-> 0, eof |-> FALSE, err |-> FALSE, closed |-> FALSE]
  /\ dst = "none"
  /\ relay = "none"
  /\ chunk = << >>
  /\ werr = FALSE
  /\ m = [lk |-> "free", done |-> "nil"]
  /\ flushPc = "none"
  /\ tick = FALSE
  /\ starts = 0
  /\ w2 = "none"

\* ---------------------------------------------------------- client writer
HeaderEvent(k) == [ev |-> "header", key |-> k, code |-> 0, n |-> 0]
StatusEvent(c) == [ev |-> "status", key |-> "", code |-> c, n |-> 0]
BodyEvent(n) == [ev |-> "body", key |-> "", code |-> 0, n |-> n]

KeyOrder == <<"Location", "Content-Type", "Content-Length">>

\* the Add calls of copyHeader(rw.Header(), h), one event per value
RECURSIVE HeaderEvents(_, _)
HeaderEvents(h, keys) ==
  IF keys = << >> THEN << >>
  ELSE [i \in 1..Len(h[Head(keys)]) |-> HeaderEvent(Head(keys))]
       \o HeaderEvents(h, Tail(keys))

\* rw.WriteHeader(code): the first call fixes the status line
WriteHeader(w, code) == IF w.status = 0 THEN [w EXCEPT !.status = code] ELSE w

\* a successful rw.Write(b)
RwWrite(w, b) == [w EXCEPT !.body = @ \o b]

\* ------------------------------------------------------------ configuration
\* p.Forbidden(prefix), called before the proxy serves
Forbidden(Prefixes) ==
  /\ pc = "idle"
  /\ Len(p.forbiddens) < MaxForbidden
  /\ \E prefix \in Prefixes :
       p' = [p EXCEPT !.forbiddens = Append(@, prefix)]
  /\ UNCHANGED <<pc, reqVars, rw, clientLog, resVars, copyVars, mlwVars>>

\* ------------------------------------------------- ServeHTTP: the request
\* the test that decides whether outreq gets a header map of its own
NeedsHeaderCopy(h) == HeaderGet(h, "Connection") # << >>

\* the header map made for outreq: a copy of req.Header without Connection
StrippedHeader(h) ==
  HeaderDel(copyHeader(EmptyHeader(ReqKeys), h), "Connection")

\* the reference outreq.Header holds once the Connection test is done:
\* 1 is req's own map (the shallow copy), 2 the new map
OutHeaderRef(h) == IF NeedsHeaderCopy(h) THEN 2 ELSE 1

\* the header maps after the Connection test and the X-Forwarded-For Set
HeadersAfterBuild(h, remoteAddr) ==
  LET heap0 == [i \in {1, 2} |->
                  IF i = 1 THEN h
                  ELSE IF NeedsHeaderCopy(h) THEN StrippedHeader(h)
                  ELSE EmptyHeader(ReqKeys)]
      sp    == SplitHostPort(remoteAddr)
  IN  IF sp.ok
      THEN [heap0 EXCEPT ![OutHeaderRef(h)] =
              HeaderSet(@, "X-Forwarded-For", sp.host)]
      ELSE heap0

\* the URL object after p.Director(outreq) and outreq.URL.Host = p.DomainProxy
URLAfterBuild(proxy, u) ==
  [director(proxy.target, u) EXCEPT !.Host = proxy.DomainProxy]

\* ServeHTTP up to the call of the transport: outreq is a shallow copy of
\* req, so both hold the same URL pointer and, until the Connection test
\* replaces it, the same header map
BuildOutreq(Reqs, Flushers) ==
  /\ pc = "idle"
  /\ \E r \in Reqs, f \in Flushers :
       /\ req0' = r
       /\ req' = [Header |-> 1, RemoteAddr |-> r.RemoteAddr, Close |-> r.Close,
                  Proto |-> r.Proto, Host |-> r.Host]
       /\ outreq' = [Header |-> OutHeaderRef(r.Header),
                     RemoteAddr |-> r.RemoteAddr, Close |-> FALSE,
                     Proto |-> "HTTP/1.1", Host |-> p.DomainProxy]
       /\ hdrs' = HeadersAfterBuild(r.Header, r.RemoteAddr)
       /\ url' = URLAfterBuild(p, r.URL)
       /\ rw' = [rw EXCEPT !.flusher = f]
  /\ pc' = "roundtrip"
  /\ UNCHANGED <<p, clientLog, resVars, copyVars, mlwVars>>

\* ------------------------------------------------ ServeHTTP: the transport
\* RoundTripErr with one retry: a failed first attempt is sent again
RoundTripErrRetry ==
  /\ pc = "roundtrip"
  /\ roundTrips' = roundTrips + 1
  /\ IF roundTrips = 0
     THEN UNCHANGED <<pc, rt, rw, clientLog>>
     ELSE /\ rt' = "err"
          /\ rw' = WriteHeader(rw, StatusInternalServerError)
          /\ clientLog' = Append(clientLog, StatusEvent(StatusInternalServerError))
          /\ pc' = "done"
  /\ UNCHANGED <<p, reqVars, res, body, copyVars, mlwVars>>

\* transport.RoundTrip fails: 500 and return
RoundTripErr ==
  /\ pc = "roundtrip"
  /\ rt' = "err"
  /\ roundTrips' = roundTrips + 1
  /\ rw' = WriteHeader(rw, StatusInternalServerError)
  /\ clientLog' = Append(clientLog, StatusEvent(StatusInternalServerError))
  /\ pc' = "done"
  /\ UNCHANGED <<p, reqVars, res, body, copyVars, mlwVars>>

\* transport.RoundTrip returns a response
RoundTripOk(Resps) ==
  /\ pc = "roundtrip"
  /\ \E r \in Resps : res' = r
  /\ rt' = "ok"
  /\ roundTrips' = roundTrips + 1
  /\ pc' = "relay"
  /\ UNCHANGED <<p, reqVars, rw, clientLog, body, copyVars, mlwVars>>

\* the status ServeHTTP writes for the response
RelayStatus(forbiddens, r) ==
  IF FilteredRedirect(forbiddens, r) THEN StatusNotFound ELSE r.StatusCode

\* RelayEvents with WriteHeader called before copyHeader
RelayEventsStatusFirst(forbiddens, r) ==
  <<StatusEvent(IF FilteredRedirect(forbiddens, r) THEN StatusNotFound
                ELSE r.StatusCode)>>
    \o HeaderEvents(r.Header, KeyOrder)

\* the calls on rw from copyHeader to WriteHeader, in order
RelayEvents(forbiddens, r) ==
  HeaderEvents(r.Header, KeyOrder)
    \o <<StatusEvent(RelayStatus(forbiddens, r))>>

\* where ServeHTTP goes after the status line
AfterStatus(forbiddens, r) ==
  IF FilteredRedirect(forbiddens, r) THEN "done"
  ELSE IF ~r.hasBody THEN "done"
  ELSE IF IsTextResponse(r) THEN "text"
  ELSE "read"

\* copyHeader, the redirect filter, WriteHeader and the choice of dst
RelayHead ==
  /\ pc = "relay"
  /\ rw' = WriteHeader([rw EXCEPT !.Header = copyHeader(@, res.Header)],
                       RelayStatus(p.forbiddens, res))
  /\ clientLog' = clientLog \o RelayEvents(p.forbiddens, res)
  /\ pc' = AfterStatus(p.forbiddens, res)
  /\ IF pc' \in {"text", "read"}
     THEN /\ dst' = ChooseDst(p.FlushInterval, rw.flusher)
          /\ relay' = IF pc' = "text" THEN "text" ELSE "stream"
     ELSE UNCHANGED <<dst, relay>>
  /\ UNCHANGED <<p, reqVars, resVars, chunk, werr, mlwVars>>

\* ------------------------------------------------ ServeHTTP: the body copy
\* where ServeHTTP goes when dst.Write has returned: the text branch returns
\* after its one Write, io.Copy stops at a write error
AfterWrite(branch, failed) ==
  IF failed \/ branch = "text" THEN "done" ELSE "read"

\* bytes.Replace(s, old, new, 1): the first match only
RECURSIVE ReplaceFirst(_, _, _)
ReplaceFirst(s, old, new) ==
  IF Len(s) < Len(old) \/ Len(old) = 0 THEN s
  ELSE IF HasPrefix(s, old)
       THEN new \o SubSeq(s, Len(old) + 1, Len(s))
       ELSE <<Head(s)>> \o ReplaceFirst(Tail(s), old, new)

\* Rewritten with a replacement count of 1 in place of -1
RewrittenFirstOnly(proxy, data) ==
  ReplaceFirst(data, proxy.DomainProxy, proxy.Domain)

\* the bytes the text branch hands to dst
Rewritten(proxy, data) == ReplaceAll(data, proxy.DomainProxy, proxy.Domain)

\* the text branch: io.Copy(buf, res.Body) reads to EOF, or to a read error
\* after k bytes; the buffer is rewritten; io.Copy(dst, buffer) calls
\* dst.Write once, and not at all for an empty buffer
TextBuffer ==
  /\ pc = "text"
  /\ \E k \in 0..Len(res.Body) :
       /\ body' = [body EXCEPT !.off = k, !.eof = (k = Len(res.Body)),
                               !.err = (k < Len(res.Body))]
       /\ chunk' = Rewritten(p, SubSeq(res.Body, 1, k))
  /\ pc' = IF Len(chunk') = 0 THEN "done" ELSE "write"
  /\ UNCHANGED <<p, reqVars, rw, clientLog, rt, roundTrips, res, dst, relay,
                 werr, mlwVars>>

\* io.Copy(dst, res.Body): one Read of the loop. It returns up to MaxChunk
\* bytes, EOF when nothing is left, or an error
CopyRead ==
  /\ pc = "read"
  /\ \/ /\ body.off < Len(res.Body)
        /\ \E n \in 1..Min(MaxChunk, Len(res.Body) - body.off) :
             /\ chunk' = SubSeq(res.Body, body.off + 1, body.off + n)
             /\ body' = [body EXCEPT !.off = @ + n]
        /\ pc' = "write"
     \/ /\ body.off = Len(res.Body)
        /\ body' = [body EXCEPT !.eof = TRUE]
        /\ pc' = "done"
        /\ UNCHANGED chunk
     \/ /\ body' = [body EXCEPT !.err = TRUE]
        /\ pc' = "done"
        /\ UNCHANGED chunk
  /\ UNCHANGED <<p, reqVars, rw, clientLog, rt, roundTrips, res, dst, relay,
                 werr, mlwVars>>

\* dst is rw itself: rw.Write(chunk) succeeds
RawWriteOk ==
  /\ pc = "write"
  /\ dst = "rw"
  /\ rw' = RwWrite(rw, chunk)
  /\ clientLog' = Append(clientLog, BodyEvent(Len(chunk)))
  /\ pc' = AfterWrite(relay, FALSE)
  /\ UNCHANGED <<p, reqVars, resVars, copyVars, mlwVars>>

\* dst is rw itself: rw.Write(chunk) fails
RawWriteFail ==
  /\ pc = "write"
  /\ dst = "rw"
  /\ werr' = TRUE
  /\ pc' = AfterWrite(relay, TRUE)
  /\ UNCHANGED <<p, reqVars, rw, clientLog, resVars, dst, relay, chunk,
                 mlwVars>>

\* ------------------------------------------------------ maxLatencyWriter
\* Write: m.lk.Lock()
MLWLock ==
  /\ pc = "write"
  /\ dst = "mlw"
  /\ m.lk = "free"
  /\ m' = [m EXCEPT !.lk = "Write"]
  /\ pc' = "w_init"
  /\ UNCHANGED <<p, reqVars, rw, clientLog, resVars, copyVars, flushPc, tick,
                 starts, w2>>

\* StartOnce without the test of m.done: every Write makes a channel and
\* starts a flushLoop
StartAlways ==
  /\ m' = [m EXCEPT !.done = "chan"]
  /\ flushPc' = "select"
  /\ starts' = starts + 1

\* Write, under the lock: if m.done is nil, make the channel and start
\* flushLoop
StartOnce ==
  IF m.done = "nil"
  THEN /\ m' = [m EXCEPT !.done = "chan"]
       /\ flushPc' = "select"
       /\ starts' = starts + 1
  ELSE UNCHANGED <<m, flushPc, starts>>

\* Write: the first Write makes the done channel and starts flushLoop
MLWStart ==
  /\ pc = "w_init"
  /\ StartOnce
  /\ pc' = "w_dst"
  /\ UNCHANGED <<p, reqVars, rw, clientLog, resVars, copyVars, tick, w2>>

\* Write: m.dst.Write(p) succeeds
MLWDstWriteOk ==
  /\ pc = "w_dst"
  /\ rw' = RwWrite(rw, chunk)
  /\ clientLog' = Append(clientLog, BodyEvent(Len(chunk)))
  /\ pc' = "w_unlock"
  /\ UNCHANGED <<p, reqVars, resVars, copyVars, mlwVars>>

\* Write: m.dst.Write(p) fails; Write goes on to m.done <- true
MLWDstWriteFail ==
  /\ pc = "w_dst"
  /\ werr' = TRUE
  /\ pc' = "w_send"
  /\ UNCHANGED <<p, reqVars, rw, clientLog, resVars, dst, relay, chunk,
                 mlwVars>>

\* m.done <- true: done is unbuffered, so the send completes only together
\* with the receive of flushLoop's select, and flushLoop returns
MLWSend ==
  /\ pc = "w_send"
  /\ flushPc = "select"
  /\ flushPc' = "exited"
  /\ tick' = FALSE
  /\ pc' = "w_unlock"
  /\ UNCHANGED <<p, reqVars, rw, clientLog, resVars, copyVars, m, starts, w2>>

\* Write: the deferred m.lk.Unlock(), and the return to the copy
MLWUnlock ==
  /\ pc = "w_unlock"
  /\ m' = [m EXCEPT !.lk = "free"]
  /\ pc' = AfterWrite(relay, werr)
  /\ UNCHANGED <<p, reqVars, rw, clientLog, resVars, copyVars, flushPc, tick,
                 starts, w2>>

\* the ticker of flushLoop fires: t.C holds at most one tick
Tick ==
  /\ flushPc \in {"select", "lock", "flush"}
  /\ ~tick
  /\ tick' = TRUE
  /\ UNCHANGED <<p, pc, reqVars, rw, clientLog, resVars, copyVars, m, flushPc,
                 starts, w2>>

\* flushLoop: the select takes the case <-t.C and goes to m.lk.Lock()
FlushTick ==
  /\ flushPc = "select"
  /\ tick
  /\ tick' = FALSE
  /\ flushPc' = "lock"
  /\ UNCHANGED <<p, pc, reqVars, rw, clientLog, resVars, copyVars, m, starts,
                 w2>>

\* FlushLock that does not wait for the lock
FlushLockNoWait ==
  /\ flushPc = "lock"
  /\ m' = [m EXCEPT !.lk = "flushLoop"]
  /\ flushPc' = "flush"
  /\ UNCHANGED <<p, pc, reqVars, rw, clientLog, resVars, copyVars, tick,
                 starts, w2>>

\* flushLoop: m.lk.Lock() returns
FlushLock ==
  /\ flushPc = "lock"
  /\ m.lk = "free"
  /\ m' = [m EXCEPT !.lk = "flushLoop"]
  /\ flushPc' = "flush"
  /\ UNCHANGED <<p, pc, reqVars, rw, clientLog, resVars, copyVars, tick,
                 starts, w2>>

\* flushLoop: m.dst.Flush() and m.lk.Unlock(), back to the select
FlushUnlock ==
  /\ flushPc = "flush"
  /\ m' = [m EXCEPT !.lk = "free"]
  /\ flushPc' = "select"
  /\ UNCHANGED <<p, pc, reqVars, rw, clientLog, resVars, copyVars, tick,
                 starts, w2>>

\* ---------------------------------------------- a second caller of Write
\* the byte the second caller writes
SecondChunk == <<"z">>

\* a second goroutine calls m.Write on the maxLatencyWriter ServeHTTP made
SecondWriterCall ==
  /\ w2 = "none"
  /\ dst = "mlw"
  /\ w2' = "call"
  /\ UNCHANGED <<p, pc, reqVars, rw, clientLog, resVars, copyVars, m, flushPc,
                 tick, starts>>

\* second Write: m.lk.Lock()
SecondLock ==
  /\ w2 = "call"
  /\ m.lk = "free"
  /\ m' = [m EXCEPT !.lk = "Write2"]
  /\ w2' = "w_init"
  /\ UNCHANGED <<p, pc, reqVars, rw, clientLog, resVars, copyVars, flushPc,
                 tick, starts>>

\* second Write: the test of m.done
SecondStart ==
  /\ w2 = "w_init"
  /\ StartOnce
  /\ w2' = "w_dst"
  /\ UNCHANGED <<p, pc, reqVars, rw, clientLog, resVars, copyVars, tick>>

\* second Write: m.dst.Write(p) succeeds
SecondDstWriteOk ==
  /\ w2 = "w_dst"
  /\ rw' = RwWrite(rw, SecondChunk)
  /\ clientLog' = Append(clientLog, BodyEvent(Len(SecondChunk)))
  /\ w2' = "w_unlock"
  /\ UNCHANGED <<p, pc, reqVars, resVars, copyVars, m, flushPc, tick, starts>>

\* second Write: m.dst.Write(p) fails
SecondDstWriteFail ==
  /\ w2 = "w_dst"
  /\ w2' = "w_send"
  /\ UNCHANGED <<p, pc, reqVars, rw, clientLog, resVars, copyVars, m, flushPc,
                 tick, starts>>

\* second Write: m.done <- true, received by flushLoop's select
SecondSend ==
  /\ w2 = "w_send"
  /\ flushPc = "select"
  /\ flushPc' = "exited"
  /\ tick' = FALSE
  /\ w2' = "w_unlock"
  /\ UNCHANGED <<p, pc, reqVars, rw, clientLog, resVars, copyVars, m, starts>>

\* second Write: the deferred m.lk.Unlock() and the return
SecondUnlock ==
  /\ w2 = "w_unlock"
  /\ m' = [m EXCEPT !.lk = "free"]
  /\ w2' = "returned"
  /\ UNCHANGED <<p, pc, reqVars, rw, clientLog, resVars, copyVars, flushPc,
                 tick, starts>>

\* ------------------------------------------------------------------ inputs
Digits == <<"0", "1", "2", "3", "4", "5", "6", "7", "8", "9">>

\* strconv.Itoa for one-digit numbers
Itoa(n) == <<Digits[n + 1]>>

ConfigsOf(DomainProxies, Domains, Intervals) ==
  {[DomainProxy |-> a, Domain |-> b, FlushInterval |-> f] :
     a \in DomainProxies, b \in Domains, f \in Intervals}

\* inbound requests as the server hands them to the handler: the URL has a
\* path and a query and no scheme or host
ReqsOf(Connections, Forwardeds, Addrs, Paths, Queries, Closes) ==
  {[Header     |-> [k \in ReqKeys |-> IF k = "Connection" THEN c ELSE x],
    URL        |-> [Scheme |-> << >>, Host |-> << >>, Path |-> path,
                    RawPath |-> << >>, RawQuery |-> q],
    RemoteAddr |-> a,
    Close      |-> cl,
    Proto      |-> "HTTP/1.0",
    Host       |-> <<"pub">>] :
     c \in Connections, x \in Forwardeds, a \in Addrs, path \in Paths,
     q \in Queries, cl \in Closes}

\* backend responses; WithLength says whether Content-Length is sent, and
\* then it is the length of the body
RespsOf(Statuses, Locations, ContentTypes, Bodies, WithLength) ==
  {[StatusCode |-> st,
    Header     |-> [k \in ResKeys |->
                      IF k = "Location" THEN l
                      ELSE IF k = "Content-Type" THEN ct
                      ELSE IF w THEN <<Itoa(Len(b))>> ELSE << >>],
    Body       |-> b,
    hasBody    |-> TRUE] :
     st \in Statuses, l \in Locations, ct \in ContentTypes, b \in Bodies,
     w \in WithLength}

\* a response whose Body is nil
NilBodyResp(st) ==
  [StatusCode |-> st, Header |-> EmptyHeader(ResKeys), Body |-> << >>,
   hasBody |-> FALSE]

GoodAddr == <<"1", ":", "8">>
BadAddr == <<"1">>

\* the general specification: every branch of ServeHTTP, few values each
Configs == ConfigsOf({<<"a">>}, {<<"b">>}, {0, 1})
Prefixes == {<<"e">>}
Reqs ==
  ReqsOf({<< >>}, {<< >>}, {GoodAddr}, {<<Slash>>}, {<< >>}, {FALSE})
    \cup ReqsOf({<< <<"close">> >>}, {<< >>}, {BadAddr}, {<<Slash>>}, {<< >>},
                {TRUE})
Resps ==
  RespsOf({StatusOK, StatusFound}, {<< >>, << <<"e">> >>, << <<"x">> >>},
          {<< >>, <<TextPlainUtf8>>}, StringsUpTo({"a"}, MaxBody), {TRUE})
    \cup {NilBodyResp(StatusOK)}

\* --------------------------------------------------------- specifications
Steps ==
  \/ RelayHead
  \/ TextBuffer
  \/ CopyRead
  \/ RawWriteOk
  \/ RawWriteFail
  \/ MLWLock
  \/ MLWStart
  \/ MLWDstWriteOk
  \/ MLWDstWriteFail
  \/ MLWSend
  \/ MLWUnlock
  \/ Tick
  \/ FlushTick
  \/ FlushLock
  \/ FlushUnlock

Init == InitWith(Configs)

Next ==
  \/ Forbidden(Prefixes)
  \/ BuildOutreq(Reqs, BOOLEAN)
  \/ RoundTripErr
  \/ RoundTripOk(Resps)
  \/ Steps

Spec == Init /\ [][Next]_vars

\* the redirect filter: many prefix lists and Location values
ConfigsRedirect == ConfigsOf({<<"a">>}, {<<"b">>}, {1})
PrefixesRedirect == {<<"e">>, <<"e", "v">>, <<"x">>}
ReqsRedirect ==
  ReqsOf({<< >>}, {<< >>}, {GoodAddr}, {<<Slash>>}, {<< >>}, {FALSE})
RespsRedirect ==
  RespsOf({StatusOK, StatusMovedPermanently, StatusFound, 303,
           StatusTemporaryRedirect},
          {<< >>, << <<"e", "v">> >>, << <<"x", "y">> >>, << <<"v">> >>,
           << <<"E", "v">> >>, << <<"v">>, <<"e", "v">> >>},
          {<< >>}, {<<"a">>}, {TRUE})
    \cup RespsOf({StatusOK}, {<< >>}, {<<TextPlainUtf8>>}, {<<"a">>}, {TRUE})

InitRedirect == InitWith(ConfigsRedirect)

NextRedirect ==
  \/ Forbidden(PrefixesRedirect)
  \/ BuildOutreq(ReqsRedirect, BOOLEAN)
  \/ RoundTripErr
  \/ RoundTripOk(RespsRedirect)
  \/ Steps

SpecRedirect == InitRedirect /\ [][NextRedirect]_vars

\* the text rewrite: every body over two bytes, authorities that overlap
\* themselves, domains shorter and longer than the authority
ConfigsText ==
  ConfigsOf({<<"a">>, <<"a", "a">>, <<"a", "b">>},
            {<< >>, <<"a", "b">>}, {1})
PrefixesText == {<<"e">>}
ReqsText ==
  ReqsOf({<< >>}, {<< >>}, {GoodAddr}, {<<Slash>>}, {<< >>}, {FALSE})
RespsText ==
  RespsOf({StatusOK, StatusNotFound}, {<< >>},
          {<< >>, <<TextPlainUtf8>>, <<TextPlainOnly, TextPlainUtf8>>},
          StringsUpTo({"a", "b"}, MaxBody), {TRUE})

InitText == InitWith(ConfigsText)

NextText ==
  \/ Forbidden(PrefixesText)
  \/ BuildOutreq(ReqsText, BOOLEAN)
  \/ RoundTripErr
  \/ RoundTripOk(RespsText)
  \/ Steps

SpecText == InitText /\ [][NextText]_vars

\* the outbound request: many inbound requests and targets
ConfigsReq ==
  ConfigsOf({<<"h">>, <<"h", Slash>>, <<"h", Slash, "b">>,
             <<"h", Slash, "b", Slash>>, <<"h", Slash, "b", "?", "t">>},
            {<<"b">>}, {1})
    \cup ConfigsOf({<<"h">>}, {<<"b">>}, {0})
PrefixesReq == {<<"e">>}
ReqsReq ==
  ReqsOf({<< >>, << << >> >>, << <<"close">> >>, << << >>, <<"close">> >>},
         {<< >>, << <<"9">> >>}, {GoodAddr, BadAddr},
         {<< >>, <<Slash>>, <<Slash, "d">>, <<Slash, Slash, "d">>, <<"d">>},
         {<< >>, <<"q">>}, {TRUE})
RespsReq ==
  RespsOf({StatusOK}, {<< >>}, {<< >>, <<TextPlainUtf8>>}, {<<"a">>}, {TRUE})

InitReq == InitWith(ConfigsReq)

NextReq ==
  \/ Forbidden(PrefixesReq)
  \/ BuildOutreq(ReqsReq, {TRUE})
  \/ RoundTripErr
  \/ RoundTripOk(RespsReq)
  \/ Steps

SpecReq == InitReq /\ [][NextReq]_vars

\* the steps of the goroutine that runs ServeHTTP, once the transport has
\* answered
ServeSteps ==
  \/ RelayHead
  \/ TextBuffer
  \/ CopyRead
  \/ RawWriteOk
  \/ RawWriteFail
  \/ MLWLock
  \/ MLWStart
  \/ MLWDstWriteOk
  \/ MLWDstWriteFail
  \/ MLWSend
  \/ MLWUnlock

\* the general specification with the scheduler's fairness: a goroutine that
\* can take a step takes one, and the ticker goes on firing
SpecFair ==
  /\ Init
  /\ [][Next]_vars
  /\ WF_vars(ServeSteps)
  /\ WF_vars(Tick)
  /\ WF_vars(FlushTick)
  /\ WF_vars(FlushLock)
  /\ WF_vars(FlushUnlock)

\* two goroutines write through one maxLatencyWriter
ConfigsWriters == ConfigsOf({<<"a">>}, {<<"b">>}, {1})
PrefixesWriters == {<<"e">>}
ReqsWriters ==
  ReqsOf({<< >>}, {<< >>}, {GoodAddr}, {<<Slash>>}, {<< >>}, {FALSE})
RespsWriters ==
  RespsOf({StatusOK}, {<< >>}, {<< >>, <<TextPlainUtf8>>},
          StringsUpTo({"a"}, MaxBody), {TRUE})

SecondWriter ==
  \/ SecondWriterCall
  \/ SecondLock
  \/ SecondStart
  \/ SecondDstWriteOk
  \/ SecondDstWriteFail
  \/ SecondSend
  \/ SecondUnlock

InitWriters == InitWith(ConfigsWriters)

NextWriters ==
  \/ Forbidden(PrefixesWriters)
  \/ BuildOutreq(ReqsWriters, BOOLEAN)
  \/ RoundTripErr
  \/ RoundTripOk(RespsWriters)
  \/ Steps
  \/ SecondWriter

SpecWriters == InitWriters /\ [][NextWriters]_vars

\* ------------------------------------------------------------------ claims
\* the response body is closed or was read to EOF
BodyReleased == body.closed \/ body.eof

\* some configured prefix is a prefix of the first Location value
LocationForbidden ==
  /\ Len(res.Header["Location"]) > 0
  /\ \E i \in 1..Len(p.forbiddens) :
       HasPrefix(res.Header["Location"][1], p.forbiddens[i])

\* ServeHTTP has written the status line for a backend response
HeadRelayed == rt = "ok" /\ pc # "relay"

\* C1: whenever the transport returned a response with a body, the body is
\* closed or drained when ServeHTTP returns, even on the exits where no read
\* and no write failed (streamed relay, text relay, forbidden-redirect 404)
C1_BodyReleasedOnReturn ==
  (pc = "done" /\ rt = "ok" /\ res.hasBody /\ ~body.err /\ ~werr)
    => BodyReleased

\* C2: a flush task that was started has terminated when ServeHTTP returns
\* (after a failed write and after a complete copy): none outlives its request
C2_FlushTaskStoppedOnReturn ==
  (pc = "done" /\ m.done = "chan") => flushPc = "exited"

\* C3: Write never waits on the stop channel while flushLoop waits on the
\* lock Write holds
C3_SendNeverBlocksOnLock ==
  ~(pc = "w_send" /\ m.lk = "Write" /\ flushPc = "lock")

\* C7: when the text branch is taken with a nonzero FlushInterval and a
\* flush-capable client writer, no flush task is ever started
C7_TextPathStartsNoFlushTask ==
  (relay = "text" /\ p.FlushInterval # 0 /\ rw.flusher) => flushPc = "none"

\* C8: the transport is called at most once, exactly once when ServeHTTP is
\* past the call; after a failed send ServeHTTP has returned, the client has
\* status 500, no header of the backend and no body byte, and the only call
\* made on the client writer is WriteHeader(500)
C8_TransportErrorIs500NoRetry ==
  /\ roundTrips <= 1
  /\ (pc \notin {"idle", "roundtrip"} => roundTrips = 1)
  /\ (rt = "err" =>
        /\ pc = "done"
        /\ rw.status = 500
        /\ rw.body = << >>
        /\ \A k \in ResKeys : rw.Header[k] = << >>
        /\ clientLog = <<StatusEvent(500)>>
        /\ dst = "none")

\* C8 witness: the transport failed and ServeHTTP has returned
C8_Witness == rt = "err" /\ pc = "done" /\ roundTrips = 1

\* the positions of the WriteHeader calls in the client log
StatusCalls == {i \in DOMAIN clientLog : clientLog[i].ev = "status"}

\* C9: on the client writer every header copy precedes the status code, the
\* status code is written at most once and exactly once when ServeHTTP has
\* returned, no body byte precedes it, and the code written is 500 after a
\* transport error, 404 for a forbidden redirect and the backend's otherwise
C9_ClientEventOrder ==
  /\ Cardinality(StatusCalls) <= 1
  /\ (pc = "done" => Cardinality(StatusCalls) = 1)
  /\ \A i \in DOMAIN clientLog :
       /\ clientLog[i].ev = "header" =>
            \A j \in StatusCalls : i < j
       /\ clientLog[i].ev = "body" =>
            \E j \in StatusCalls : j < i
  /\ \A j \in StatusCalls :
       /\ clientLog[j].code = rw.status
       /\ clientLog[j].code =
            IF rt = "err" THEN 500
            ELSE IF res.StatusCode \in {301, 302, 307} /\ LocationForbidden
                 THEN 404
                 ELSE res.StatusCode
       /\ rt = "ok" =>
            \A k \in ResKeys :
              Cardinality({i \in 1..(j - 1) :
                             clientLog[i] = HeaderEvent(k)})
                = Len(res.Header[k])

\* C9 witness: ServeHTTP returned after header copies, the status code and
\* body writes, in that order
C9_Witness ==
  /\ pc = "done"
  /\ Len(clientLog) >= 4
  /\ clientLog[1].ev = "header"
  /\ clientLog[Len(clientLog) - 1].ev = "body"
  /\ clientLog[Len(clientLog)].ev = "body"

\* the backend answered with one of the redirect codes the filter looks at
RedirectResponse == res.StatusCode \in {301, 302, 307}

C5_AllowedRedirectRelayed ==
  (HeadRelayed /\ RedirectResponse /\ ~LocationForbidden) =>
    /\ rw.status = res.StatusCode
    /\ rw.Header["Location"] = res.Header["Location"]

\* C5 witness: a redirect with two Location values and a non-empty prefix
\* list, none matching, has been relayed and ServeHTTP has returned
C5_Witness ==
  /\ HeadRelayed
  /\ pc = "done"
  /\ RedirectResponse
  /\ Len(res.Header["Location"]) = 2
  /\ Len(p.forbiddens) > 0
  /\ ~LocationForbidden

\* old occurs in s at position i
OccursAt(s, old, i) ==
  i + Len(old) - 1 <= Len(s) /\ SubSeq(s, i, i + Len(old) - 1) = old

\* the start positions of the non-overlapping occurrences of old in s,
\* leftmost first: chosen occurrences do not overlap, and every occurrence
\* that is not chosen overlaps a chosen one that starts before it
Occurrences(s, old) ==
  CHOOSE P \in SUBSET (1..Len(s)) :
    /\ \A i \in P : OccursAt(s, old, i)
    /\ \A i, j \in P : i < j => i + Len(old) <= j
    /\ \A q \in 1..Len(s) :
         OccursAt(s, old, q) => \E i \in P : i <= q /\ q < i + Len(old)

\* s from position i on, with new in place of the occurrences of old that
\* start at the positions P
RECURSIVE Substituted(_, _, _, _, _)
Substituted(s, old, new, P, i) ==
  IF i > Len(s) THEN << >>
  ELSE IF i \in P THEN new \o Substituted(s, old, new, P, i + Len(old))
  ELSE <<s[i]>> \o Substituted(s, old, new, P, i + 1)

\* the response is a 200 whose first Content-Type value is exactly the
\* plain-text UTF-8 type
TextResponse ==
  /\ res.StatusCode = 200
  /\ Len(res.Header["Content-Type"]) > 0
  /\ res.Header["Content-Type"][1] = <<"text/plain; charset=utf-8">>

\* ServeHTTP relayed the whole body: it has returned, the response was not
\* a filtered redirect, and no read of the body and no write to the client
\* failed
BodyRelayed ==
  /\ pc = "done"
  /\ rt = "ok"
  /\ res.hasBody
  /\ ~(RedirectResponse /\ LocationForbidden)
  /\ ~body.err
  /\ ~werr

C10_ConnectionStripped ==
  (pc # "idle" /\ Len(req0.Header["Connection"]) > 0) =>
    /\ outreq.Header # req.Header
    /\ hdrs[outreq.Header]["Connection"] = << >>

\* the outbound request is built
OutreqBuilt == pc # "idle"

\* C11: building the outbound request leaves the inbound request as it was:
\* its header map has the values it had at the call, and its URL has the
\* scheme, host, path and query it had at the call
C11_InboundRequestUnchanged ==
  OutreqBuilt =>
    /\ hdrs[req.Header] = req0.Header
    /\ url.Scheme = req0.URL.Scheme
    /\ url.Host = req0.URL.Host
    /\ url.Path = req0.URL.Path
    /\ url.RawQuery = req0.URL.RawQuery

\* C12: for an inbound request with a non-empty query string, the query of
\* the outbound request's URL is that query string
C12_QueryPreserved ==
  (OutreqBuilt /\ req0.URL.RawQuery # << >>) =>
    url.RawQuery = req0.URL.RawQuery

\* s without its trailing slashes
RECURSIVE TrimRightSlashes(_)
TrimRightSlashes(s) ==
  IF Len(s) > 0 /\ s[Len(s)] = "/"
  THEN TrimRightSlashes(SubSeq(s, 1, Len(s) - 1))
  ELSE s

\* s without its leading slashes
RECURSIVE TrimLeftSlashes(_)
TrimLeftSlashes(s) ==
  IF Len(s) > 0 /\ s[1] = "/" THEN TrimLeftSlashes(Tail(s)) ELSE s

\* s without one trailing slash, if it has one
DropTrailingSlash(s) ==
  IF Len(s) > 0 /\ s[Len(s)] = "/" THEN SubSeq(s, 1, Len(s) - 1) ELSE s

\* s without one leading slash, if it has one
DropLeadingSlash(s) ==
  IF Len(s) > 0 /\ s[1] = "/" THEN SubSeq(s, 2, Len(s)) ELSE s

\* C13 as stated: the joined path is the base path up to its trailing
\* slashes, one slash, and the inbound path after its leading slashes, for
\* all base paths and inbound paths
C13_ExactlyOneSlashAtJunction ==
  OutreqBuilt =>
    url.Path = TrimRightSlashes(p.target.Path) \o <<"/">>
                 \o TrimLeftSlashes(req0.URL.Path)

\* C13 as amended: the joined path is the base path without one trailing
\* slash, one slash, and the inbound path without one leading slash; the
\* junction has exactly one slash whenever the base path does not end and
\* the inbound path does not begin with more than one slash
C13_JoinDropsOrInsertsOneSlash ==
  OutreqBuilt =>
    /\ url.Path = DropTrailingSlash(p.target.Path) \o <<"/">>
                    \o DropLeadingSlash(req0.URL.Path)
    /\ (/\ ~HasSuffix(p.target.Path, <<"/", "/">>)
        /\ ~HasPrefix(req0.URL.Path, <<"/", "/">>))
         => url.Path = TrimRightSlashes(p.target.Path) \o <<"/">>
                         \o TrimLeftSlashes(req0.URL.Path)

\* C13 witness: a base path that ends with a slash was joined with an
\* inbound path that begins with one
C13_Witness ==
  /\ OutreqBuilt
  /\ Len(p.target.Path) > 1
  /\ HasSuffix(p.target.Path, <<"/">>)
  /\ Len(req0.URL.Path) > 1
  /\ HasPrefix(req0.URL.Path, <<"/">>)
  /\ ~HasPrefix(req0.URL.Path, <<"/", "/">>)

\* addr is host:port with no colon in port
AddrHost(addr, host) ==
  \E i \in 1..Len(addr) :
    /\ addr[i] = ":"
    /\ \A j \in (i + 1)..Len(addr) : addr[j] # ":"
    /\ host = SubSeq(addr, 1, i - 1)

AddrParses(addr) == \E i \in 1..Len(addr) : addr[i] = ":"

\* the X-Forwarded-For values of the outbound request
OutForwardedFor == hdrs[outreq.Header]["X-Forwarded-For"]

\* C14 as stated: when the remote address is host:port the outbound
\* X-Forwarded-For is exactly the host, and when it does not parse the
\* outbound request has no X-Forwarded-For, whatever the inbound carried
C14_ForwardedForSetOrAbsent ==
  OutreqBuilt =>
    IF AddrParses(req0.RemoteAddr)
    THEN Len(OutForwardedFor) = 1
         /\ AddrHost(req0.RemoteAddr, OutForwardedFor[1])
    ELSE OutForwardedFor = << >>

\* C14 as amended: when the remote address is host:port the outbound
\* X-Forwarded-For is exactly the host; when it does not parse ServeHTTP
\* goes on to the transport and sets no X-Forwarded-For: the outbound
\* request has the values the inbound request carried, none if it had none
C14_ForwardedForSetOrLeft ==
  OutreqBuilt =>
    /\ roundTrips = 1 \/ pc = "roundtrip"
    /\ IF AddrParses(req0.RemoteAddr)
       THEN Len(OutForwardedFor) = 1
            /\ AddrHost(req0.RemoteAddr, OutForwardedFor[1])
       ELSE OutForwardedFor = req0.Header["X-Forwarded-For"]

\* C14 witness: a request whose remote address does not parse and that
\* carried an X-Forwarded-For went to the transport and was answered
C14_Witness ==
  /\ rt = "ok"
  /\ ~AddrParses(req0.RemoteAddr)
  /\ Len(req0.Header["X-Forwarded-For"]) > 0

\* the body copy of ServeHTTP goes through a maxLatencyWriter and has not
\* ended
CopyInProgress ==
  dst = "mlw" /\ pc \in {"read", "write", "w_init", "w_dst", "w_send", "w_unlock"}

\* C15: a tick that waits while the body copy through the maxLatencyWriter
\* is in progress and flushLoop has not received the stop signal is
\* eventually followed by a Flush, or by flushLoop receiving the signal
C15_TickFollowedByFlush ==
  (tick /\ CopyInProgress /\ flushPc # "exited")
    ~> (flushPc = "flush" \/ flushPc = "exited")

\* where a goroutine stands while it is inside Write, past m.lk.Lock()
InsideWrite == {"w_init", "w_dst", "w_send", "w_unlock"}

\* C16: whatever the interleaving of the Write calls of two goroutines on
\* one maxLatencyWriter, at most one flushLoop is started; none is started
\* while m.done is nil, that is before a Write has run, and none when the
\* body copy ends without a Write; and the writer ServeHTTP chose is never
\* replaced by another
C16_AtMostOneFlushTask ==
  /\ [](/\ starts <= 1
        /\ (m.done = "nil" => starts = 0 /\ flushPc = "none")
        /\ (flushPc # "none" => starts = 1)
        /\ (pc = "done" /\ ~werr /\ rw.body = << >> /\ w2 \in {"none", "call"})
             => starts = 0)
  /\ [][dst # "none" => dst' = dst]_vars

\* C16 witness: both goroutines have written through the writer and
\* returned, and one flushLoop was started
C16_Witness ==
  /\ pc = "done"
  /\ w2 = "returned"
  /\ ~werr
  /\ Len(rw.body) >= 3
  /\ starts = 1

\* C17: flushLoop is at m.dst.Flush() only while it holds the lock, a
\* goroutine is inside Write only while it holds the lock, and so Flush and
\* m.dst.Write never run at the same time
C17_FlushAndWriteExclusive ==
  /\ flushPc = "flush" => m.lk = "flushLoop"
  /\ pc \in InsideWrite => m.lk = "Write"
  /\ w2 \in InsideWrite => m.lk = "Write2"
  /\ ~(flushPc = "flush" /\ (pc = "w_dst" \/ w2 = "w_dst"))
  /\ ~(pc = "w_dst" /\ w2 = "w_dst")

\* C17 witness: flushLoop is at Flush while both goroutines wait in
\* m.lk.Lock() with bytes to write
C17_Witness ==
  /\ flushPc = "flush"
  /\ pc = "write"
  /\ dst = "mlw"
  /\ w2 = "call"
  /\ Len(rw.body) > 0

\* C18: the body goes through a maxLatencyWriter exactly when FlushInterval
\* is nonzero and rw can flush; otherwise it is written to rw itself, no
\* Write of a maxLatencyWriter runs and no flushLoop is ever started
C18_WriterChoice ==
  /\ dst # "none" => (dst = "mlw" <=> (p.FlushInterval # 0 /\ rw.flusher))
  /\ dst # "mlw" =>
       /\ flushPc = "none"
       /\ starts = 0
       /\ m = [lk |-> "free", done |-> "nil"]
       /\ pc \notin InsideWrite

\* C18 witness: with a nonzero FlushInterval and an rw that cannot flush the
\* whole body was written to rw itself
C18_Witness ==
  /\ pc = "done"
  /\ dst = "rw"
  /\ p.FlushInterval # 0
  /\ ~rw.flusher
  /\ Len(rw.body) > 1
  /\ rw.body = res.Body

\* C19: when the backend response has a Content-Length and ServeHTTP has
\* returned without a failed read or write, the Content-Length the client
\* got is the number of body bytes written to it
C19_ContentLengthMatchesBody ==
  (/\ pc = "done"
   /\ rt = "ok"
   /\ Len(res.Header["Content-Length"]) > 0
   /\ ~body.err
   /\ ~werr)
    => rw.Header["Content-Length"] = <<Itoa(Len(rw.body))>>

====
